---- MODULE Spec2Model ----
(***************************************************************************)
(* Lifecycle of AsyncDiskMmapFileMut (fmmap-rs/src/disk/tokio_impl.rs):    *)
(* construction, positional write, flush, truncate on both remap           *)
(* strategies (cfg(not(target_os = "linux")) and cfg(target_os = "linux")) *)
(* and drop, over one path of the filesystem.                              *)
(***************************************************************************)
EXTENDS Integers, Sequences, FiniteSets, TLC

\* Largest file / mapping length explored.
MaxSize == 2

\* Byte values: the zero byte and one data byte.
Byte == {0, 1}
Sizes == 0..MaxSize

\* Byte strings of length 0..MaxSize.
Contents == UNION {[1..n -> Byte] : n \in Sizes}

Zeros(n) == [i \in 1..n |-> 0]

VARIABLES
    strategy,   \* which cfg of truncate the build holds
    exists,     \* the path exists on the filesystem
    disk,       \* content of the file at the path (what a fresh open reads)
    obj,        \* "absent" | "live" | "gone": the file object
    backing,    \* "disk" | "memory": which variant the object is
    typ,        \* MmapFileMutType of the object: "Normal" | "Cow"
    opts,       \* stored Option<MmapOptions>: "None" | "Some"
    mmap,       \* self.mmap: [mem: bytes seen through it, unmaps: times munmap ran on it]
    newmap,     \* the local `mmap` of truncate: <<>> or <<bytes>>
    pc,         \* position inside truncate, "idle" outside
    max_sz,     \* argument of the running truncate
    log,        \* calls issued by the running / last operation, in order
    lastOp,     \* last completed operation
    prevZero,   \* the operation before it was a truncate(0) that returned Ok
    pre,        \* region and file as they were when the last operation, a truncate, was called
    cowBase,    \* <<content of the file at open_cow>>, until a truncate is called
    staleUse,   \* a retired region was accessed through the object
    crashed,    \* the process died on a fault
    exec,       \* AsyncDiskMmapFile::exec of the frozen object
    failedCall, \* the call of the running / last operation that failed, "" if none
    twin,       \* <<buffer>> of a memory-backed file put through the same calls
    io,         \* the last call to the range I/O engine and what it returned
    cursor,     \* the range cursor in use: window offset, window length, position
    exported    \* <<bytes>> of the file an export created, <<>> if none

vars == <<strategy, exists, disk, obj, backing, typ, opts, mmap, newmap, pc,
          max_sz, log, lastOp, prevZero, pre, cowBase, staleUse, crashed,
          exec, failedCall, twin, io, cursor, exported>>

\* The variables only the range I/O engine and the export change.
ioVars == <<io, cursor, exported>>

Strategies == {"unmap_first", "remap_in_place"}

Op(o, a, v, r) == [op |-> o, arg |-> a, val |-> v, res |-> r]
NoOp == Op("none", 0, 0, "ok")
\* No call to the range I/O engine was made.
NoCall ==
    [op |-> "none", off |-> 0, len |-> 0, arg |-> <<>>, ty |-> <<>>,
     ret |-> 0, out |-> <<>>, before |-> <<>>]

\* No cursor is in use.
NoCursor == [kind |-> "none", off |-> 0, len |-> 0, pos |-> 0]

NoPre == [ok |-> FALSE, mem |-> <<>>, dlen |-> 0, dsk |-> <<>>]

Region(m, sh) == [mem |-> m, unmaps |-> 0, shared |-> sh]

\* self.mmap refers to a region that is still mapped.
Mapped == mmap.unmaps = 0

\* Number of regions of the object that are mapped right now.
MappedCount ==
    (IF obj \in {"live", "frozen"} /\ Mapped THEN 1 ELSE 0) + Len(newmap)

\* set_len left out: the file keeps its length.
SetLenKeep(d, n) == d

\* set_len that only ever grows the file.
SetLenGrowOnly(d, n) ==
    [i \in 1..(IF n > Len(d) THEN n ELSE Len(d)) |-> IF i <= Len(d) THEN d[i] ELSE 0]

\* File::set_len: cut, or extend with zero bytes.
SetLen(d, n) == [i \in 1..n |-> IF i <= Len(d) THEN d[i] ELSE 0]

\* Dirty pages of a shared mapping reach the file, up to the file's end.
Carry(m, d) == [i \in 1..Len(d) |-> IF i <= Len(m) THEN m[i] ELSE d[i]]

\* Dropping a MmapMut runs munmap on it.
Unmap(m) == [m EXCEPT !.unmaps = IF @ < 2 THEN @ + 1 ELSE @]

\* map_copy called where map_mut is meant.
MapMutPrivate(d) == Region(d, FALSE)

\* MmapMut::map_mut / MmapOptions::map_mut: a shared mapping of the whole file.
MapMut(d) == Region(d, TRUE)

\* map_mut called where map_copy is meant.
MapCopyShared(d) == Region(d, TRUE)

\* MmapOptions::map_copy: a private mapping of the whole file.
MapCopy(d) == Region(d, FALSE)

\* Every file reports itself as copy-on-write.
is_cowAlways == TRUE

\* fn is_cow(&self) -> bool { matches!(self.typ, MmapFileMutType::Cow) }
is_cow == typ = "Cow"

\* self.mmap is a live shared mapping: its writes are carried to the file.
Shared == backing = "disk" /\ mmap.shared /\ Mapped

Init ==
    /\ strategy \in Strategies
    /\ exists \in BOOLEAN
    /\ disk \in (IF exists THEN Contents ELSE {<<>>})
    /\ obj = "absent"
    /\ backing = "disk"
    /\ typ = "Normal"
    /\ opts = "None"
    /\ mmap = Region(<<>>, FALSE)
    /\ newmap = <<>>
    /\ pc = "idle"
    /\ max_sz = 0
    /\ log = <<>>
    /\ lastOp = NoOp
    /\ prevZero = FALSE
    /\ pre = NoPre
    /\ cowBase = <<>>
    /\ staleUse = FALSE
    /\ crashed = FALSE
    /\ exec = FALSE
    /\ failedCall = ""
    /\ twin = <<>>
    /\ io = NoCall
    /\ cursor = NoCursor
    /\ exported = <<>>

\* No object is being used and the process is alive: a constructor may run.
CanConstruct == obj \notin {"live", "frozen"} /\ pc = "idle" /\ ~crashed

\* The object is live and no truncate is running on it.
CanUse == obj = "live" /\ pc = "idle" /\ ~crashed

\* An operation returned r to the caller.
Done(o, a, v, r) ==
    /\ lastOp' = Op(o, a, v, r)
    /\ prevZero' = (lastOp = Op("truncate", 0, 0, "ok"))

\* Every failure of a constructor surfaces as the catch-all kind.
ErrorOfFlat(o, call) == "IO"

\* The error kind a constructor wraps a failed call in: map_err(Error::OpenFailed),
\* map_err(Error::TruncationFailed), map_err(Error::MmapFailed), or a plain `?`.
ErrorOf(o, call) ==
    CASE call \in {"create_file", "open_file", "open_ro", "open_opts"} -> "OpenFailed"
      [] call = "set_len" -> "TruncationFailed"
      [] call \in {"map_mut", "map_copy"} /\ o \in {"create", "open"} -> "MmapFailed"
      [] OTHER -> "IO"

\* A constructor called with max_size ms returned Err: no object exists.
Failed(o, ms, d, e, calls) ==
    /\ disk' = d
    /\ exists' = e
    /\ log' = calls
    /\ failedCall' = calls[Len(calls)]
    /\ cowBase' = <<>>
    /\ Done(o, ms, Len(disk), ErrorOf(o, calls[Len(calls)]))
    /\ twin' = <<>>
    /\ UNCHANGED <<strategy, ioVars, exec, obj, backing, typ, opts, mmap, newmap, pc, max_sz,
                   pre, staleUse, crashed>>

\* A constructor called with max_size ms returned
\* Ok(Self {mmap, file, path, opts, typ}).
Built(o, ms, d, m, t, os, calls) ==
    /\ disk' = d
    /\ exists' = TRUE
    /\ obj' = "live"
    /\ backing' = "disk"
    /\ typ' = t
    /\ opts' = os
    /\ mmap' = m
    /\ cowBase' = IF t = "Cow" THEN <<d>> ELSE <<>>
    /\ staleUse' = FALSE
    /\ pre' = NoPre
    /\ log' = calls
    /\ failedCall' = ""
    /\ Done(o, ms, Len(disk), "ok")
    /\ twin' = IF o = "create" /\ os = "None" THEN << <<>> >> ELSE <<>>
    /\ UNCHANGED <<strategy, ioVars, exec, newmap, pc, max_sz, crashed>>

\* Which call of a constructor fails, if any.
Faults == {"none", "open", "metadata", "set_len", "sync_dir", "mmap"}

\* utils::create_file_async: creates the file, emptying one that exists.
create_file_async(d) == <<>>

\* create_in never pre-extends the file.
PreallocatesNever(ms) == FALSE

\* if opts.max_size > 0 { file.set_len(opts.max_size) ... sync_dir_async(parent) }
Preallocates(ms) == ms > 0

\* AsyncDiskMmapFileMut::create_in(path, opts)
CreateIn(o, ms, fault) ==
    /\ CanConstruct
    /\ fault # "metadata"
    /\ IF fault = "open" THEN Failed("create", ms, disk, exists, <<"create_file">>)
       ELSE LET d0 == create_file_async(disk) IN
         IF o = "None" THEN
            /\ ms = 0
            /\ fault \in {"none", "mmap"}
            /\ IF fault = "mmap"
               THEN Failed("create", ms, d0, TRUE, <<"create_file", "map_mut">>)
               ELSE Built("create", ms, d0, MapMut(d0), "Normal", "None",
                          <<"create_file", "map_mut">>)
         ELSE IF Preallocates(ms) THEN
            LET d1 == SetLen(d0, ms) IN
            CASE fault = "set_len" ->
                   Failed("create", ms, d0, TRUE, <<"create_file", "set_len">>)
              [] fault = "sync_dir" ->
                   Failed("create", ms, d1, TRUE,
                          <<"create_file", "set_len", "sync_dir">>)
              [] fault = "mmap" ->
                   Failed("create", ms, d1, TRUE,
                          <<"create_file", "set_len", "sync_dir", "map_mut">>)
              [] OTHER ->
                   Built("create", ms, d1, MapMut(d1), "Normal", "Some",
                         <<"create_file", "set_len", "sync_dir", "map_mut">>)
         ELSE
            /\ fault \in {"none", "mmap"}
            /\ IF fault = "mmap"
               THEN Failed("create", ms, d0, TRUE, <<"create_file", "map_mut">>)
               ELSE Built("create", ms, d0, MapMut(d0), "Normal", "Some",
                          <<"create_file", "map_mut">>)

Create == \E o \in {"None", "Some"}, ms \in Sizes, fault \in Faults :
              CreateIn(o, ms, fault)

\* A shared writable mapping needs a handle opened for reading and writing;
\* over a read-only handle the mapping call is refused.
Mappable(access) == access = "read_write"

\* The access the handle is opened with: File::open opens read-only, the
\* options' file_opts open it as the caller configured them.
Accesses == {"read", "read_write"}

\* AsyncDiskMmapFileMut::open_in(path, opts)
OpenIn(o, access, fault) ==
    /\ CanConstruct
    /\ fault \in {"none", "open", "mmap"}
    /\ o = "None" => access = "read"
    /\ LET call == IF o = "None" THEN "open_ro" ELSE "open_opts" IN
       IF fault = "open" \/ ~exists
       THEN Failed("open", 0, disk, exists, <<call>>)
       ELSE IF fault = "mmap" \/ ~Mappable(access)
       THEN Failed("open", 0, disk, TRUE, <<call, "map_mut">>)
       ELSE Built("open", 0, disk, MapMut(disk), "Normal", o, <<call, "map_mut">>)

Open == \E o \in {"None", "Some"}, access \in Accesses, fault \in Faults :
            OpenIn(o, access, fault)

\* utils::open_exist_file_with_append_async: opens the file, which must exist.
open_exist_file_with_append_async(e) == e

\* The file is grown whenever a max_size is configured.
GrowsOnOpenAlways(sz, ms) == ms > 0

\* if file_sz == 0 && opts.max_size > 0 { file.set_len(opts.max_size) ... }
GrowsOnOpen(sz, ms) == sz = 0 /\ ms > 0

\* The body shared by open_exist_in and open_cow_in, which differ in the
\* mapping call (map_mut / map_copy) and in the mode tag.
OpenExisting(name, call, t, o, ms, fault) ==
    /\ IF fault = "open" \/ ~open_exist_file_with_append_async(exists)
       THEN Failed(name, ms, disk, exists, <<"open_file">>)
       ELSE LET Map(d) == IF call = "map_mut" THEN MapMut(d) ELSE MapCopy(d) IN
         IF o = "None" THEN
            /\ ms = 0
            /\ fault \in {"none", "mmap"}
            /\ IF fault = "mmap"
               THEN Failed(name, ms, disk, TRUE, <<"open_file", call>>)
               ELSE Built(name, ms, disk, Map(disk), t, "None", <<"open_file", call>>)
         ELSE IF fault = "metadata" THEN
            Failed(name, ms, disk, TRUE, <<"open_file", "metadata">>)
         ELSE IF GrowsOnOpen(Len(disk), ms) THEN
            LET d1 == SetLen(disk, ms) IN
            CASE fault = "set_len" ->
                   Failed(name, ms, disk, TRUE, <<"open_file", "metadata", "set_len">>)
              [] fault = "sync_dir" ->
                   Failed(name, ms, d1, TRUE,
                          <<"open_file", "metadata", "set_len", "sync_dir">>)
              [] fault = "mmap" ->
                   Failed(name, ms, d1, TRUE,
                          <<"open_file", "metadata", "set_len", "sync_dir", call>>)
              [] OTHER ->
                   Built(name, ms, d1, Map(d1), t, "Some",
                         <<"open_file", "metadata", "set_len", "sync_dir", call>>)
         ELSE
            /\ fault \in {"none", "mmap"}
            /\ IF fault = "mmap"
               THEN Failed(name, ms, disk, TRUE, <<"open_file", "metadata", call>>)
               ELSE Built(name, ms, disk, Map(disk), t, "Some",
                          <<"open_file", "metadata", call>>)

\* AsyncDiskMmapFileMut::open_exist_in(path, opts)
OpenExistIn(o, ms, fault) ==
    /\ CanConstruct
    /\ OpenExisting("open_exist", "map_mut", "Normal", o, ms, fault)

\* AsyncDiskMmapFileMut::open_cow_in(path, opts)
OpenCowIn(o, ms, fault) ==
    /\ CanConstruct
    /\ OpenExisting("open_cow", "map_copy", "Cow", o, ms, fault)

OpenExist == \E o \in {"None", "Some"}, ms \in Sizes, fault \in Faults :
                 OpenExistIn(o, ms, fault)

OpenCow == \E o \in {"None", "Some"}, ms \in Sizes, fault \in Faults :
               OpenCowIn(o, ms, fault)

\* AsyncMmapFileMutExt::write(bytes, offset) with one byte: copies
\* min(bytes.len(), len - offset) bytes into as_mut_slice() and returns the count.
WriteAt(m, b, off) ==
    IF off < Len(m) THEN [m EXCEPT ![off + 1] = b] ELSE m

WriteCount(m, off) == IF off < Len(m) THEN 1 ELSE 0

\* The growable buffer of the memory-backed file, resized with zero fill.
MemoryResize(m, n) == [i \in 1..n |-> IF i <= Len(m) THEN m[i] ELSE 0]

\* fn as_mut_slice(&mut self) -> &mut [u8] { self.mmap.as_mut() }
as_mut_slice == mmap.mem

\* file.write(&[b], off) on an object whose region is mapped.  A store past
\* the end of the file faults or lands in the mapping's last page.
Write(b, off) ==
    /\ CanUse
    /\ Mapped
    /\ \/ /\ mmap' = [mmap EXCEPT !.mem = WriteAt(as_mut_slice, b, off)]
          /\ Done("write", off, b, IF WriteCount(as_mut_slice, off) = 1 THEN "ok" ELSE "short")
          /\ log' = <<>>
          /\ failedCall' = ""
          /\ pre' = NoPre
          /\ UNCHANGED crashed
       \/ /\ backing = "disk"
          /\ off < Len(as_mut_slice)
          /\ off >= Len(disk)
          /\ crashed' = TRUE
          /\ UNCHANGED <<mmap, lastOp, prevZero, log, failedCall, pre>>
    /\ twin' = IF crashed' THEN <<>>
              ELSE IF Len(twin) = 1 THEN <<WriteAt(twin[1], b, off)>> ELSE twin
    /\ UNCHANGED <<strategy, ioVars, exec, exists, disk, obj, backing, typ, opts, newmap, pc,
                   max_sz, cowBase, staleUse>>

\* file.write(&[b], off) on an object whose region was retired: the store
\* goes through a dangling pointer, so it faults or lands in whatever is
\* mapped there now.
WriteStale(b, off, garbage) ==
    /\ CanUse
    /\ ~Mapped
    /\ off < Len(as_mut_slice)
    /\ Len(garbage) = Len(as_mut_slice)
    /\ staleUse' = TRUE
    /\ \/ /\ mmap' = [mmap EXCEPT !.mem = garbage]
          /\ Done("write", off, b, "ok")
          /\ log' = <<>>
          /\ failedCall' = ""
          /\ pre' = NoPre
          /\ UNCHANGED crashed
       \/ /\ crashed' = TRUE
          /\ UNCHANGED <<mmap, lastOp, prevZero, log, failedCall, pre>>
    /\ twin' = <<>>
    /\ UNCHANGED <<strategy, ioVars, exec, exists, disk, obj, backing, typ, opts, newmap, pc,
                   max_sz, cowBase>>

\* impl_flush!: flush() forces the dirty pages of the mapping to the file;
\* nothing is carried, and nothing can fail, for a private or anonymous one.
FlushResults(m) == IF m.shared \/ m.unmaps > 0 THEN {"ok", "err"} ELSE {"ok"}

FlushedDisk(r) == IF Shared /\ r = "ok" THEN Carry(mmap.mem, disk) ELSE disk

\* file.flush()
Flush(r) ==
    /\ CanUse
    /\ r \in FlushResults(mmap)
    /\ disk' = FlushedDisk(r)
    /\ staleUse' = (staleUse \/ ~Mapped)
    /\ log' = <<"flush">>
    /\ failedCall' = IF r = "ok" THEN "" ELSE "flush"
    /\ pre' = NoPre
    /\ Done("flush", 0, 0, r)
    /\ twin' = IF r = "ok" THEN twin ELSE <<>>
    /\ UNCHANGED <<strategy, ioVars, exec, exists, obj, backing, typ, opts, mmap, newmap, pc,
                   max_sz, cowBase, crashed>>

\* The object goes out of scope: its fields are dropped, self.mmap first.
\* The dirty pages of a shared mapping stay in the page cache of the file.
Drop ==
    /\ CanUse
    /\ obj' = "gone"
    /\ mmap' = [Unmap(mmap) EXCEPT !.mem = <<>>]
    /\ disk' = IF Shared THEN Carry(mmap.mem, disk) ELSE disk
    /\ log' = <<"unmap">>
    /\ failedCall' = ""
    /\ pre' = NoPre
    /\ Done("drop", 0, 0, "ok")
    /\ twin' = <<>>
    /\ UNCHANGED <<strategy, ioVars, exec, exists, backing, typ, opts, newmap, pc, max_sz,
                   cowBase, staleUse, crashed>>

\* The operating system writes dirty pages of a shared mapping back to the
\* file whenever it likes.
Writeback ==
    /\ obj \in {"live", "frozen"}
    /\ ~crashed
    /\ Shared
    /\ disk' = Carry(mmap.mem, disk)
    /\ disk' # disk
    /\ twin' = twin
    /\ UNCHANGED <<strategy, ioVars, exec, exists, obj, backing, typ, opts, mmap, newmap, pc,
                   max_sz, log, failedCall, lastOp, prevZero, pre, cowBase,
                   staleUse, crashed>>

\* remove_file left out: the path stays.
RemoveFileKeeps(e) == e

\* remove_file(path): the path is gone.
RemoveFile(e) == FALSE

\* remove goes on to close and remove_file whatever set_len returned.
RemoveCallsAll(fault) == <<"unmap", "set_len", "close", "remove_file">>

\* The calls of remove, in order: drop(self.mmap), self.file.set_len(0)?,
\* drop(self.file), remove_file(path)?
RemoveCalls(fault) ==
    IF fault = "set_len" THEN <<"unmap", "set_len">>
    ELSE <<"unmap", "set_len", "close", "remove_file">>

\* AsyncDiskMmapFileMut::remove(self)
Remove(fault) ==
    /\ CanUse
    /\ backing = "disk"
    /\ fault \in {"none", "set_len", "remove_file"}
    /\ LET calls == RemoveCalls(fault)
           d0 == IF Shared THEN Carry(mmap.mem, disk) ELSE disk
           deleted == calls[Len(calls)] = "remove_file" /\ fault # "remove_file"
       IN /\ disk' = IF fault = "set_len" /\ ~deleted THEN d0 ELSE SetLen(d0, 0)
          /\ exists' = IF deleted THEN RemoveFile(exists) ELSE exists
          /\ log' = calls
          /\ failedCall' = IF fault = "none" THEN "" ELSE fault
          /\ Done("remove", 0, Len(disk), IF fault = "none" THEN "ok" ELSE "IO")
    /\ obj' = "gone"
    /\ mmap' = [Unmap(mmap) EXCEPT !.mem = <<>>]
    /\ pre' = NoPre
    /\ cowBase' = <<>>
    /\ twin' = <<>>
    /\ UNCHANGED <<strategy, ioVars, exec, backing, typ, opts, newmap, pc, max_sz,
                   staleUse, crashed>>

\* The resize of close_with_truncate skipped for a target of 0 as well.
CloseResizesPositive(t) == t > 0

\* if max_sz >= 0 { self.file.set_len(max_sz as u64) ... sync_dir_async(parent) }
CloseResizes(t) == t >= 0

\* close_with_truncate without its directory sync.
CloseCallsNoSync(t) ==
    IF CloseResizes(t) THEN <<"flush", "unmap", "set_len">>
    ELSE <<"flush", "unmap">>

\* The calls of close_with_truncate, in order: self.flush()?, drop(self.mmap),
\* and for a target that resizes, set_len(max_sz)? and sync_dir_async(parent)?
CloseCalls(t) ==
    IF CloseResizes(t) THEN <<"flush", "unmap", "set_len", "sync_dir">>
    ELSE <<"flush", "unmap">>

\* The targets a caller passes to close_with_truncate.
Targets == (0 - 1)..MaxSize

\* The calls issued up to and including the one that fails.
UpTo(calls, fault) ==
    IF \E i \in 1..Len(calls) : calls[i] = fault
    THEN SubSeq(calls, 1, CHOOSE i \in 1..Len(calls) : calls[i] = fault)
    ELSE calls

\* AsyncDiskMmapFileMut::close_with_truncate(self, max_sz); whatever it
\* returns, self goes out of scope, so the region is unmapped.
CloseWithTruncate(target, fault) ==
    /\ CanUse
    /\ backing = "disk"
    /\ fault \in {"none"} \cup {c \in {"flush", "set_len", "sync_dir"} :
                                 \E i \in 1..Len(CloseCalls(target)) :
                                     CloseCalls(target)[i] = c}
    /\ (IF fault = "flush" THEN "err" ELSE "ok") \in FlushResults(mmap)
    /\ LET calls == UpTo(CloseCalls(target), fault)
           d0 == IF Shared THEN Carry(mmap.mem, disk) ELSE disk
           resized == CloseResizes(target) /\ fault \notin {"flush", "set_len"}
       IN /\ disk' = IF resized THEN SetLen(d0, target) ELSE d0
          /\ log' = calls
          /\ failedCall' = IF fault = "none" THEN "" ELSE fault
          /\ Done("close", target, Len(disk),
                  CASE fault = "none" -> "ok"
                    [] fault = "set_len" -> "IO"
                    [] OTHER -> "err")
    /\ obj' = "gone"
    /\ mmap' = [Unmap(mmap) EXCEPT !.mem = <<>>]
    /\ staleUse' = (staleUse \/ ~Mapped)
    /\ pre' = NoPre
    /\ cowBase' = <<>>
    /\ twin' = <<>>
    /\ UNCHANGED <<strategy, ioVars, exec, exists, backing, typ, opts, newmap, pc, max_sz,
                   crashed>>

\* Both freeze and freeze_exec build the immutable file with exec: false.
ExecFlagNever(op) == FALSE

\* freeze builds AsyncDiskMmapFile {.., exec: false}, freeze_exec {.., exec: true}.
ExecFlag(op) == op = "freeze_exec"

\* AsyncDiskMmapFileMut::freeze(self) / freeze_exec(self): make_read_only or
\* make_exec changes the protection of the region; when it fails the region
\* and the handle are dropped with self.
Freeze(op, r) ==
    /\ CanUse
    /\ backing = "disk"
    /\ op \in {"freeze", "freeze_exec"}
    /\ log' = <<IF op = "freeze" THEN "make_read_only" ELSE "make_exec">>
    /\ failedCall' = IF r = "ok" THEN "" ELSE log'[1]
    /\ Done(op, 0, 0, IF r = "ok" THEN "ok" ELSE "IO")
    /\ IF r = "ok"
       THEN /\ obj' = "frozen"
            /\ exec' = ExecFlag(op)
            /\ UNCHANGED <<mmap, disk>>
       ELSE /\ obj' = "gone"
            /\ mmap' = [Unmap(mmap) EXCEPT !.mem = <<>>]
            /\ disk' = IF Shared THEN Carry(mmap.mem, disk) ELSE disk
            /\ UNCHANGED exec
    /\ staleUse' = (staleUse \/ ~Mapped)
    /\ pre' = NoPre
    /\ cowBase' = <<>>
    /\ twin' = <<>>
    /\ UNCHANGED <<strategy, ioVars, exists, backing, typ, opts, newmap, pc, max_sz,
                   crashed>>

\* The immutable file goes out of scope: its region is unmapped.
DropImmutable ==
    /\ obj = "frozen"
    /\ ~crashed
    /\ obj' = "gone"
    /\ exec' = FALSE
    /\ mmap' = [Unmap(mmap) EXCEPT !.mem = <<>>]
    /\ disk' = IF Shared THEN Carry(mmap.mem, disk) ELSE disk
    /\ log' = <<"unmap">>
    /\ failedCall' = ""
    /\ Done("drop", 0, 0, "ok")
    /\ twin' = <<>>
    /\ UNCHANGED <<strategy, ioVars, exists, backing, typ, opts, newmap, pc, max_sz, pre,
                   cowBase, staleUse, crashed>>

\* The unmap step left out of the unmap-first strategy.
AfterFlushNoUnmap(s) == "t_set_len"

\* The region unmapped before the resize on either strategy.
AfterFlushUnmap(s) == "t_unmap"

\* The step after the flush of truncate: cfg(not(target_os = "linux")) unmaps
\* before it resizes, cfg(target_os = "linux") resizes at once.
AfterFlush(s) == IF s = "unmap_first" THEN "t_unmap" ELSE "t_set_len"

\* `if self.mmap.len() > 0 { self.flush()?; }` against `self.flush()?;`
FlushDue(s, m) == s = "remap_in_place" \/ Len(m) > 0

\* truncate returned r to the caller.
Returned(r) ==
    /\ pc' = "idle"
    /\ max_sz' = 0
    /\ Done("truncate", max_sz, 0, r)

\* truncate(max_sz), up to the end of its flush.
TruncateFlush(n, r) ==
    /\ CanUse
    /\ backing = "disk"
    /\ pre' = [ok |-> Mapped, mem |-> as_mut_slice, dlen |-> Len(disk), dsk |-> disk]
    /\ cowBase' = <<>>
    /\ IF FlushDue(strategy, as_mut_slice)
       THEN /\ r \in FlushResults(mmap)
            /\ disk' = FlushedDisk(r)
            /\ staleUse' = (staleUse \/ ~Mapped)
            /\ log' = <<"flush">>
            /\ failedCall' = IF r = "ok" THEN "" ELSE "flush"
            /\ IF r = "ok"
               THEN /\ pc' = AfterFlush(strategy)
                    /\ max_sz' = n
                    /\ UNCHANGED <<lastOp, prevZero>>
               ELSE /\ pc' = "idle"
                    /\ max_sz' = 0
                    /\ Done("truncate", n, 0, "err")
       ELSE /\ r = "ok"
            /\ log' = <<>>
            /\ failedCall' = ""
            /\ pc' = AfterFlush(strategy)
            /\ max_sz' = n
            /\ UNCHANGED <<disk, staleUse, lastOp, prevZero>>
    /\ twin' = IF r = "ok" /\ Len(twin) = 1 THEN <<MemoryResize(twin[1], n)>> ELSE <<>>
    /\ UNCHANGED <<strategy, ioVars, exec, exists, obj, backing, typ, opts, mmap, newmap,
                   crashed>>

\* drop_in_place left out: the old region stays mapped.
DropInPlaceNot(m) == m

\* drop_in_place(&mut self.mmap): munmap runs, self.mmap keeps the old value.
DropInPlace(m) == Unmap(m)

\* The `// unmap` step of truncate, cfg(not(target_os = "linux")).
TruncateUnmap ==
    /\ pc = "t_unmap"
    /\ mmap' = DropInPlace(mmap)
    /\ disk' = IF Shared THEN Carry(mmap.mem, disk) ELSE disk
    /\ log' = Append(log, "unmap")
    /\ failedCall' = ""
    /\ pc' = "t_set_len"
    /\ twin' = twin
    /\ UNCHANGED <<strategy, ioVars, exec, exists, obj, backing, typ, opts, newmap, max_sz,
                   lastOp, prevZero, pre, cowBase, staleUse, crashed>>

\* self.file.set_len(max_sz).await.map_err(TruncationFailed)?
TruncateSetLen(r) ==
    /\ pc = "t_set_len"
    /\ log' = Append(log, "set_len")
    /\ failedCall' = IF r = "ok" THEN "" ELSE "set_len"
    /\ IF r = "ok"
       THEN /\ disk' = SetLen(disk, max_sz)
            /\ pc' = "t_remap"
            /\ UNCHANGED <<max_sz, lastOp, prevZero>>
       ELSE /\ Returned("err")
            /\ UNCHANGED disk
    /\ twin' = IF r = "ok" THEN twin ELSE <<>>
    /\ UNCHANGED <<strategy, ioVars, exec, exists, obj, backing, typ, opts, mmap, newmap,
                   pre, cowBase, staleUse, crashed>>

\* disk::remmap(path, file, opts, typ): maps the file again, by map_copy for
\* Cow and by map_mut for Normal.
remmap(d, t) == IF t = "Cow" THEN MapCopy(d) ELSE MapMut(d)

\* let mmap = remmap(self.path(), &self.file, self.opts.as_ref(), self.typ)?
TruncateRemap(r) ==
    /\ pc = "t_remap"
    /\ log' = Append(log, "remap")
    /\ failedCall' = IF r = "ok" THEN "" ELSE "remap"
    /\ IF r = "ok"
       THEN /\ newmap' = <<remmap(disk, typ)>>
            /\ pc' = "t_install"
            /\ UNCHANGED <<max_sz, lastOp, prevZero>>
       ELSE /\ Returned("err")
            /\ UNCHANGED newmap
    /\ twin' = IF r = "ok" THEN twin ELSE <<>>
    /\ UNCHANGED <<strategy, ioVars, exec, exists, disk, obj, backing, typ, opts, mmap,
                   pre, cowBase, staleUse, crashed>>

\* `write(&mut self.mmap, mmap)` overwrites the field without dropping it;
\* `self.mmap = ...` drops the old region, then holds the new one.
TruncateInstall ==
    /\ pc = "t_install"
    /\ mmap' = newmap[1]
    /\ newmap' = <<>>
    /\ log' = Append(log, "install")
    /\ failedCall' = ""
    /\ Returned("ok")
    /\ twin' = twin
    /\ UNCHANGED <<strategy, ioVars, exec, exists, disk, obj, backing, typ, opts,
                   pre, cowBase, staleUse, crashed>>

\* The future of truncate is dropped while it waits for set_len; the
\* blocking set_len may or may not have run.
CancelTruncate(applied) ==
    /\ pc = "t_set_len"
    /\ disk' = IF applied THEN SetLen(disk, max_sz) ELSE disk
    /\ Returned("cancelled")
    /\ twin' = <<>>
    /\ UNCHANGED <<strategy, ioVars, exec, exists, obj, backing, typ, opts, mmap, newmap,
                   log, failedCall, pre, cowBase, staleUse, crashed>>

\* AsyncMemoryMmapFileMut::new(path): a memory-backed file of length 0.
MemoryNew ==
    /\ CanConstruct
    /\ obj' = "live"
    /\ backing' = "memory"
    /\ typ' = "Normal"
    /\ opts' = "None"
    /\ mmap' = Region(<<>>, FALSE)
    /\ cowBase' = <<>>
    /\ staleUse' = FALSE
    /\ pre' = NoPre
    /\ log' = <<>>
    /\ failedCall' = ""
    /\ Done("new", 0, 0, "ok")
    /\ twin' = <<>>
    /\ UNCHANGED <<strategy, ioVars, exec, exists, disk, newmap, pc, max_sz, crashed>>

\* AsyncMemoryMmapFileMut::truncate(max_sz)
MemoryTruncate(n) ==
    /\ CanUse
    /\ backing = "memory"
    /\ pre' = [ok |-> TRUE, mem |-> as_mut_slice, dlen |-> 0, dsk |-> <<>>]
    /\ mmap' = [mmap EXCEPT !.mem = MemoryResize(@, n)]
    /\ log' = <<>>
    /\ failedCall' = ""
    /\ Done("truncate", n, 0, "ok")
    /\ twin' = <<>>
    /\ UNCHANGED <<strategy, ioVars, exec, exists, disk, obj, backing, typ, opts, newmap, pc,
                   max_sz, cowBase, staleUse, crashed>>

Next ==
    \/ Create
    \/ OpenExist
    \/ OpenCow
    \/ Open
    \/ \E fault \in {"none", "set_len", "remove_file"} : Remove(fault)
    \/ \E target \in Targets, fault \in {"none", "flush", "set_len", "sync_dir"} :
           CloseWithTruncate(target, fault)
    \/ \E op \in {"freeze", "freeze_exec"}, r \in {"ok", "err"} : Freeze(op, r)
    \/ DropImmutable
    \/ \E b \in Byte, off \in Sizes : Write(b, off)
    \/ \E b \in Byte, off \in Sizes, g \in Contents : WriteStale(b, off, g)
    \/ \E r \in {"ok", "err"} : Flush(r)
    \/ Drop
    \/ Writeback
    \/ \E n \in Sizes, r \in {"ok", "err"} : TruncateFlush(n, r)
    \/ TruncateUnmap
    \/ \E r \in {"ok", "err"} : TruncateSetLen(r)
    \/ \E r \in {"ok", "err"} : TruncateRemap(r)
    \/ TruncateInstall
    \/ MemoryNew
    \/ \E n \in Sizes : MemoryTruncate(n)

Spec == Init /\ [][Next]_vars

\* The same program, whose owner may also drop a truncate future in flight.
NextCancel == Next \/ \E applied \in BOOLEAN : CancelTruncate(applied)

SpecCancel == Init /\ [][NextCancel]_vars

\* ---- The range I/O engine over the bytes of the region ----

\* The variables the range I/O engine leaves alone.  A cursor borrows the
\* file, so any other call means the cursor was dropped.
coreVars == <<strategy, exists, disk, obj, backing, typ, opts, newmap, pc, max_sz,
              log, lastOp, prevZero, pre, cowBase, staleUse, crashed, exec,
              failedCall, twin>>

\* A file opened by open_exist(path): a shared region over the whole file.
\* The engine is the same code in either build, so one build is looked at.
InitIO ==
    /\ strategy = "remap_in_place"
    /\ exists = TRUE
    /\ disk \in Contents
    /\ obj = "live"
    /\ backing = "disk"
    /\ typ = "Normal"
    /\ opts = "None"
    /\ mmap = MapMut(disk)
    /\ newmap = <<>>
    /\ pc = "idle"
    /\ max_sz = 0
    /\ log = <<"open_file", "map_mut">>
    /\ lastOp = Op("open_exist", 0, Len(disk), "ok")
    /\ prevZero = FALSE
    /\ pre = NoPre
    /\ cowBase = <<>>
    /\ staleUse = FALSE
    /\ crashed = FALSE
    /\ exec = FALSE
    /\ failedCall = ""
    /\ twin = <<>>
    /\ io = NoCall
    /\ cursor = NoCursor
    /\ exported = <<>>

\* The offsets and lengths a caller passes: up to past the end of the region.
Offsets == 0..(MaxSize + 1)

\* A call to the engine and what it returned; before is the region it found.
Call(op, off, len, arg, ty, ret, out) ==
    [op |-> op, off |-> off, len |-> len, arg |-> arg, ty |-> ty,
     ret |-> ret, out |-> out, before |-> as_mut_slice]

\* len bytes from offset off on, as a load would find them: past the end of
\* the region lies memory that is not the region's.
Load(m, off, len) == [i \in 1..len |-> IF off + i <= Len(m) THEN m[off + i] ELSE 0]

\* src stored from offset off on; a store past the end does not land in the
\* region.
Store(m, src, off) ==
    [i \in 1..Len(m) |-> IF off < i /\ i <= off + Len(src) THEN src[i - off] ELSE m[i]]

\* The count clamped one byte short of the end of the region.
countShort(m, n, off) ==
    IF off >= Len(m) THEN 0
    ELSE IF n < Len(m) - off - 1 THEN n ELSE Len(m) - off - 1

\* The bytes write and read move: min(n, mapped_len - off), 0 from the end on.
count(m, n, off) ==
    IF off >= Len(m) THEN 0
    ELSE IF n < Len(m) - off THEN n ELSE Len(m) - off

\* write(src, offset): copies the first count bytes of src to offset.
write(m, src, off) == Store(m, SubSeq(src, 1, count(m, Len(src), off)), off)

\* read(dst, offset): copies count bytes from offset to dst.
read(m, n, off) == Load(m, off, count(m, n, off))

\* file.write(src, off)
WriteBytes(src, off) ==
    /\ CanUse
    /\ Mapped
    /\ mmap' = [mmap EXCEPT !.mem = write(@, src, off)]
    /\ io' = Call("write", off, Len(src), src, <<>>,
                  count(as_mut_slice, Len(src), off), <<>>)
    /\ cursor' = NoCursor
    /\ exported' = <<>>
    /\ UNCHANGED coreVars

\* file.read(dst, off) with a destination of n bytes
ReadBytes(n, off) ==
    /\ CanUse
    /\ Mapped
    /\ io' = Call("read", off, n, <<>>, <<>>,
                  count(as_mut_slice, n, off), read(as_mut_slice, n, off))
    /\ cursor' = NoCursor
    /\ exported' = <<>>
    /\ UNCHANGED <<coreVars, mmap>>

\* The bounds check that looks at the offset alone.
InBoundsOffset(m, off, len) == off <= Len(m)

\* The bounds check of the slice and typed accessors.
InBounds(m, off, len) == off + len <= Len(m)

\* The accessors that hand out or copy a range of the region.
SliceOps == {"bytes", "bytes_mut", "copy_range_to_vec"}

\* file.bytes(off, len) / file.copy_range_to_vec(off, len), and
\* file.bytes_mut(off, len) followed by copy_from_slice(src) on the view.
Slice(op, off, src) ==
    /\ CanUse
    /\ Mapped
    /\ op \in SliceOps
    /\ op # "bytes_mut" => src = Zeros(Len(src))
    /\ IF InBounds(as_mut_slice, off, Len(src))
       THEN /\ io' = Call(op, off, Len(src), src, <<>>, "ok",
                          Load(as_mut_slice, off, Len(src)))
            /\ mmap' = IF op = "bytes_mut"
                       THEN [mmap EXCEPT !.mem = Store(@, src, off)]
                       ELSE mmap
       ELSE /\ io' = Call(op, off, Len(src), src, <<>>, "Bounds", <<>>)
            /\ UNCHANGED mmap
    /\ cursor' = NoCursor
    /\ exported' = <<>>
    /\ UNCHANGED coreVars

\* The number of values a byte of the model takes.
Radix == Cardinality(Byte)

RECURSIVE Pow(_, _)
Pow(b, e) == IF e = 0 THEN 1 ELSE b * Pow(b, e - 1)

\* size_of(T) in bytes, for the integer types that fit a region.
Widths == 1..MaxSize

\* An integer type: its size, byte order and signedness.
Types == Widths \X {"be", "le"} \X BOOLEAN

\* The values of an integer type.
Values(ty) ==
    IF ty[3] THEN (0 - Pow(Radix, ty[1]) \div 2)..(Pow(Radix, ty[1]) \div 2 - 1)
    ELSE 0..(Pow(Radix, ty[1]) - 1)

\* A value as the unsigned number of its two's complement bits, and back.
Bits(v, w) == (v + Pow(Radix, w)) % Pow(Radix, w)

Signed(u, w) == IF u >= Pow(Radix, w) \div 2 THEN u - Pow(Radix, w) ELSE u

RECURSIVE to_be_bytes(_, _)
\* T::to_be_bytes: the most significant byte first.
to_be_bytes(u, w) ==
    IF w = 0 THEN <<>> ELSE Append(to_be_bytes(u \div Radix, w - 1), u % Radix)

RECURSIVE from_be_bytes(_)
\* T::from_be_bytes
from_be_bytes(bs) ==
    IF bs = <<>> THEN 0
    ELSE from_be_bytes(SubSeq(bs, 1, Len(bs) - 1)) * Radix + bs[Len(bs)]

Reverse(bs) == [i \in 1..Len(bs) |-> bs[Len(bs) + 1 - i]]

\* The little-endian accessors encoding as the big-endian ones do.
EncodeBigEndian(v, ty) == to_be_bytes(Bits(v, ty[1]), ty[1])

\* The bytes write_T stores for a value, in the byte order of the accessor.
Encode(v, ty) ==
    IF ty[2] = "be" THEN to_be_bytes(Bits(v, ty[1]), ty[1])
    ELSE Reverse(to_be_bytes(Bits(v, ty[1]), ty[1]))

\* The value read_T makes of the bytes it loads.
Decode(bs, ty) ==
    LET u == from_be_bytes(IF ty[2] = "be" THEN bs ELSE Reverse(bs))
    IN IF ty[3] THEN Signed(u, ty[1]) ELSE u

\* file.write_T(v, off): write_u16, write_i32_le, ...
WriteT(ty, v, off) ==
    /\ CanUse
    /\ Mapped
    /\ v \in Values(ty)
    /\ IF InBounds(as_mut_slice, off, ty[1])
       THEN /\ mmap' = [mmap EXCEPT !.mem = Store(@, Encode(v, ty), off)]
            /\ io' = Call("write_T", off, ty[1], v, ty, "ok", <<>>)
       ELSE /\ io' = Call("write_T", off, ty[1], v, ty, "Bounds", <<>>)
            /\ UNCHANGED mmap
    /\ cursor' = NoCursor
    /\ exported' = <<>>
    /\ UNCHANGED coreVars

\* file.read_T(off): read_u16, read_i32_le, ...
ReadT(ty, off) ==
    /\ CanUse
    /\ Mapped
    /\ IF InBounds(as_mut_slice, off, ty[1])
       THEN io' = Call("read_T", off, ty[1], <<>>, ty, "ok",
                       <<Decode(Load(as_mut_slice, off, ty[1]), ty)>>)
       ELSE io' = Call("read_T", off, ty[1], <<>>, ty, "Bounds", <<>>)
    /\ cursor' = NoCursor
    /\ exported' = <<>>
    /\ UNCHANGED <<coreVars, mmap>>

\* A window that is confined at its start only.
WindowToEnd(m, off, len) == Load(m, off, Len(m) - off)

\* The bytes a range cursor is given: &mut slice[off..off + len].
Window(m, off, len) == Load(m, off, len)

\* file.range_writer(off, len) / file.range_reader(off, len)
RangeCursor(kind, off, len) ==
    /\ CanUse
    /\ Mapped
    /\ kind \in {"writer", "reader"}
    /\ IF InBounds(as_mut_slice, off, len)
       THEN /\ cursor' = [kind |-> kind, off |-> off, len |-> len, pos |-> 0]
            /\ io' = Call("range_" \o kind, off, len, <<>>, <<>>, "ok", <<>>)
       ELSE /\ cursor' = NoCursor
            /\ io' = Call("range_" \o kind, off, len, <<>>, <<>>, "Bounds", <<>>)
    /\ exported' = <<>>
    /\ UNCHANGED <<coreVars, mmap>>

\* cursor.seek(SeekFrom::Start(p)): the position may lie past the window.
CursorSeek(p) ==
    /\ CanUse
    /\ cursor.kind # "none"
    /\ cursor' = [cursor EXCEPT !.pos = p]
    /\ io' = Call("seek", p, 0, <<>>, <<>>, p, <<>>)
    /\ exported' = <<>>
    /\ UNCHANGED <<coreVars, mmap>>

\* writer.write(src): a write into the window at the position, which advances
\* by the count written.
CursorWrite(src) ==
    /\ CanUse
    /\ cursor.kind = "writer"
    /\ LET win == Window(as_mut_slice, cursor.off, cursor.len)
           n == count(win, Len(src), cursor.pos)
       IN /\ mmap' = [mmap EXCEPT !.mem = Store(@, write(win, src, cursor.pos), cursor.off)]
          /\ cursor' = [cursor EXCEPT !.pos = @ + n]
          /\ io' = Call("cursor_write", cursor.pos, Len(src), src, <<>>, n, <<>>)
    /\ exported' = <<>>
    /\ UNCHANGED coreVars

\* reader.read(dst) with a destination of n bytes
CursorRead(n) ==
    /\ CanUse
    /\ cursor.kind = "reader"
    /\ LET win == Window(as_mut_slice, cursor.off, cursor.len)
           k == count(win, n, cursor.pos)
       IN /\ cursor' = [cursor EXCEPT !.pos = @ + k]
          /\ io' = Call("cursor_read", cursor.pos, n, <<>>, <<>>, k,
                        read(win, n, cursor.pos))
    /\ exported' = <<>>
    /\ UNCHANGED <<coreVars, mmap>>

\* The export that copies from the start of the region whatever the offset.
ExportedFromStart(m, off, len) == Load(m, 0, len)

\* The bytes the new file holds: the range of the region, written in full.
Exported(m, off, len) == Load(m, off, len)

\* file.write_range_to_new_file(path, off, len) with a range of the region,
\* and file.write_all_to_new_file(path), which exports the whole region.
WriteRangeToNewFile(op, off, len) ==
    /\ CanUse
    /\ Mapped
    /\ InBounds(as_mut_slice, off, len)
    /\ \/ op = "write_range_to_new_file"
       \/ op = "write_all_to_new_file" /\ off = 0 /\ len = Len(as_mut_slice)
    /\ exported' = <<Exported(as_mut_slice, off, len)>>
    /\ io' = Call(op, off, len, <<>>, <<>>, "ok", <<>>)
    /\ cursor' = NoCursor
    /\ UNCHANGED <<coreVars, mmap>>
\* Positional writes and reads.
NextIO ==
    \/ \E src \in Contents, off \in Offsets : WriteBytes(src, off)
    \/ \E n \in Sizes, off \in Offsets : ReadBytes(n, off)

SpecIO == InitIO /\ [][NextIO]_vars

\* The slice and the typed accessors.
NextAccess ==
    \/ \E op \in SliceOps, off \in Offsets, src \in Contents : Slice(op, off, src)
    \/ \E ty \in Types, off \in Offsets : \E v \in Values(ty) : WriteT(ty, v, off)
    \/ \E ty \in Types, off \in Offsets : ReadT(ty, off)

SpecAccess == InitIO /\ [][NextAccess]_vars

\* A range cursor, from the call that makes it to the calls made through it.
NextCursor ==
    \/ \E kind \in {"writer", "reader"}, off \in Offsets, len \in Offsets :
           RangeCursor(kind, off, len)
    \/ \E p \in Offsets : CursorSeek(p)
    \/ \E src \in Contents : CursorWrite(src)
    \/ \E n \in Sizes : CursorRead(n)

SpecCursor == InitIO /\ [][NextCursor]_vars

\* Writes to the region and exports of it.
NextExport ==
    \/ \E src \in Contents, off \in Offsets : WriteBytes(src, off)
    \/ \E op \in {"write_range_to_new_file", "write_all_to_new_file"},
          off \in Offsets, len \in Offsets : WriteRangeToNewFile(op, off, len)

SpecExport == InitIO /\ [][NextExport]_vars

----------------------------------------------------------------------------
\* The last operation was a truncate of the file-backed object that returned Ok.
TruncateOk ==
    pc = "idle" /\ backing = "disk" /\ lastOp.op = "truncate" /\ lastOp.res = "ok"

\* C1: after truncate(new_size) returns Ok, the installed region has exactly
\* new_size bytes and the file has length new_size, in either mode and on
\* either strategy, for every new_size (0 included) and every prior length.
TruncateSetsBothLengths ==
    TruncateOk =>
        /\ obj = "live"
        /\ Mapped
        /\ Len(mmap.mem) = lastOp.arg
        /\ Len(disk) = lastOp.arg

\* A truncate to 0 of a non-empty mapping returned Ok.
TruncatedToZero ==
    TruncateOk /\ lastOp.arg = 0 /\ Len(pre.mem) > 0

StepRank(e) ==
    CASE e = "flush" -> 1
      [] e = "unmap" -> 2
      [] e = "set_len" -> 3
      [] e = "remap" -> 4
      [] e = "install" -> 5

Logged(e) == \E i \in 1..Len(log) : log[i] = e

\* log holds the steps of a truncate of the file-backed object.
TruncateLog == backing = "disk" /\ (pc # "idle" \/ lastOp.op = "truncate")

\* C2: within one truncate the steps run in the order flush, unmap (on the
\* unmap-first strategy), set_len, remap, install: no set_len before the
\* flush of a non-empty mapping has returned, no new region before set_len
\* has succeeded, and on the unmap-first strategy the old region is released
\* before set_len is issued.
TruncateStepsInOrder ==
    TruncateLog =>
        /\ \A i, j \in 1..Len(log) :
              i < j => StepRank(log[i]) < StepRank(log[j])
        /\ (Logged("set_len") \/ pc = "t_set_len") /\ Len(pre.mem) > 0
              => log[1] = "flush"
        /\ strategy = "unmap_first" /\ (Logged("set_len") \/ pc = "t_set_len")
              => Logged("unmap")
        /\ strategy = "unmap_first" /\ pc \in {"t_set_len", "t_remap"}
              => ~Mapped
        /\ Logged("remap") \/ Len(newmap) = 1 \/ pc = "t_remap"
              => Logged("set_len")
        /\ pc \in {"t_remap", "t_install"} => Len(disk) = max_sz
        /\ Logged("install") => Logged("remap")

\* A truncate on the unmap-first strategy ran all five steps.
AllFiveSteps ==
    /\ TruncateOk
    /\ strategy = "unmap_first"
    /\ log = <<"flush", "unmap", "set_len", "remap", "install">>

\* C3: a truncate cancelled while it waits for set_len leaves the object
\* with a validly installed region (the prior one or the new one), never
\* with a region that is unmapped and not replaced.
CancelLeavesRegionInstalled ==
    pc = "idle" /\ lastOp.op = "truncate" /\ lastOp.res = "cancelled" =>
        obj = "live" /\ Mapped

\* C4: after a truncate that failed once the old region was unmapped, the
\* retired region is never accessed through the object and never unmapped a
\* second time.
RetiredRegionLeftAlone ==
    ~staleUse /\ mmap.unmaps <= 1

\* C5: whenever the object holds an installed region, between operations,
\* the file is at least as long as the region.
HandleBacksRegion ==
    obj = "live" /\ pc = "idle" /\ backing = "disk" /\ Mapped =>
        Len(disk) >= Len(mmap.mem)

\* C6 as stated: at every instant at most one region of the object is mapped.
AtMostOneRegion == MappedCount <= 1

\* C6: at most one region of the object is mapped at every instant, except
\* between the remap and the install of a truncate on the remap-in-place
\* strategy, where the old and the new region are both mapped.
OneRegionButAtInstall ==
    /\ MappedCount <= 2
    /\ MappedCount = 2 => strategy = "remap_in_place" /\ pc = "t_install"

\* On the unmap-first strategy the new region exists and the old one is gone.
OldRetiredBeforeNew ==
    /\ strategy = "unmap_first"
    /\ pc = "t_install"
    /\ Len(newmap) = 1
    /\ ~Mapped

\* C7: writes and flushes through an object built by open_cow never change
\* the file (also once the object is dropped), and the object reads back
\* the byte it wrote last.
CowWritesStayPrivate ==
    /\ Len(cowBase) = 1 => disk = cowBase[1]
    /\ Len(cowBase) = 1 /\ obj = "live" /\ lastOp.op = "write" /\ lastOp.res = "ok"
          => mmap.mem[lastOp.arg + 1] = lastOp.val

\* A Copy-on-Write object was written and flushed and differs from the file.
CowWrittenAndFlushed ==
    /\ Len(cowBase) = 1
    /\ obj = "live"
    /\ lastOp = Op("flush", 0, 0, "ok")
    /\ mmap.mem # disk

\* C8: truncate to the current mapped length leaves the readable bytes as
\* they were, in every mode.
TruncateSameSizeKeepsContent ==
    pc = "idle" /\ lastOp.op = "truncate" /\ lastOp.res = "ok" /\ pre.ok
        /\ lastOp.arg = Len(pre.mem)
    => mmap.mem = pre.mem

\* C9: truncate(0) followed by truncate(N) leaves N zero bytes, for the
\* file-backed and the memory-backed object.
ZeroThenGrowIsZeros ==
    pc = "idle" /\ lastOp.op = "truncate" /\ lastOp.res = "ok" /\ prevZero =>
        /\ Mapped
        /\ mmap.mem = Zeros(lastOp.arg)

\* truncate(0) then truncate(N), N > 0, both Ok, on a file-backed object.
ZeroThenGrown ==
    TruncateOk /\ prevZero /\ lastOp.arg > 0

\* C10: after a flush of a Normal file-backed object returned Ok, a fresh
\* open of the path reads the bytes of the region.
FlushedRegionIsOnDisk ==
    /\ lastOp = Op("flush", 0, 0, "ok")
    /\ pc = "idle" /\ obj = "live" /\ backing = "disk" /\ typ = "Normal" /\ Mapped
    => \A i \in 1..Len(disk) : i <= Len(mmap.mem) => disk[i] = mmap.mem[i]

\* Data bytes were written, flushed, and are in the file.
WrittenDataFlushed ==
    /\ lastOp = Op("flush", 0, 0, "ok")
    /\ pc = "idle" /\ obj = "live" /\ backing = "disk" /\ typ = "Normal" /\ Mapped
    /\ Len(disk) = MaxSize
    /\ \A i \in 1..Len(disk) : disk[i] = 1
\* The order remove issues its calls in.
RemoveOrder == <<"unmap", "set_len", "close", "remove_file">>

\* C11: remove consumes the object and issues unmap, set_len(0), the release
\* of the handle and the deletion of the path in this order; whenever it
\* returns Ok, all four were issued and the path no longer exists.
RemoveDeletesPath ==
    lastOp.op = "remove" =>
        /\ obj = "gone"
        /\ ~Mapped
        /\ Len(log) <= Len(RemoveOrder)
        /\ \A i \in 1..Len(log) : log[i] = RemoveOrder[i]
        /\ lastOp.res = "ok" => log = RemoveOrder /\ ~exists

\* A file that held bytes was removed, and remove returned Ok.
RemovedAfterWrite ==
    lastOp.op = "remove" /\ lastOp.res = "ok" /\ lastOp.val > 0 /\ ~exists

\* C12: close_with_truncate flushes, then drops the mapping, before it touches
\* the handle; with a target >= 0 that returned Ok the file has the target
\* length and the directory was synced after the resize; with a target < 0 no
\* set_len and no sync_dir are issued and the file keeps its length.
CloseLeavesTargetLength ==
    lastOp.op = "close" =>
        /\ obj = "gone"
        /\ ~Mapped
        /\ log[1] = "flush"
        /\ Len(log) >= 2 => log[2] = "unmap"
        /\ \A i \in 1..Len(log) : log[i] \in {"set_len", "sync_dir"} => i > 2
        /\ lastOp.res = "ok" =>
              IF lastOp.arg >= 0
              THEN /\ Len(disk) = lastOp.arg
                   /\ log = <<"flush", "unmap", "set_len", "sync_dir">>
              ELSE /\ Len(disk) = lastOp.val
                   /\ ~Logged("set_len")
                   /\ ~Logged("sync_dir")

\* close_with_truncate returned Ok for a target >= 0 that is not the length
\* the file had.
ClosedAtTarget ==
    /\ lastOp.op = "close" /\ lastOp.res = "ok"
    /\ lastOp.arg >= 0 /\ lastOp.arg # lastOp.val
    /\ Len(disk) = lastOp.arg

\* The last operation was a create that returned Ok, and nothing runs now.
CreateOk == pc = "idle" /\ lastOp.op = "create" /\ lastOp.res = "ok"

\* What holds of the file create returned: lengths and the calls issued.
CreatedAsConfigured ==
    CreateOk =>
        /\ obj = "live"
        /\ Mapped
        /\ Len(mmap.mem) = lastOp.arg
        /\ Len(disk) = lastOp.arg
        /\ lastOp.arg > 0 =>
              log = <<"create_file", "set_len", "sync_dir", "map_mut">>
        /\ lastOp.arg = 0 => log = <<"create_file", "map_mut">>

\* C13: create with options whose max_size > 0 sets the length of the file to
\* max_size and syncs the directory before it maps, so the mapped length is
\* max_size and the first write below max_size stores its byte; create without
\* options or with max_size = 0 gives mapped length 0, whatever the path held.
CreatePreallocates ==
    [][/\ CreatedAsConfigured'
       /\ CreateOk =>
             /\ crashed' = crashed
             /\ lastOp'.op = "write" /\ lastOp'.arg < lastOp.arg =>
                   /\ lastOp'.res = "ok"
                   /\ mmap'.mem[lastOp'.arg + 1] = lastOp'.val]_vars

\* create with max_size = MaxSize returned Ok over a path that held bytes.
CreatedPreallocated ==
    CreateOk /\ lastOp.arg = MaxSize /\ lastOp.val > 0 /\ Len(mmap.mem) = MaxSize

\* The last operation was an open_exist or open_cow, and nothing runs now.
OpenedExisting == pc = "idle" /\ lastOp.op \in {"open_exist", "open_cow"}

\* C14: open_exist and open_cow grow the file to max_size, sync the directory
\* and only then map, exactly when options are given, the file is empty and
\* max_size > 0; in every other case the length of the file is left as it was
\* and the mapped length is the length of the file.
OpenGrowsOnlyEmpty ==
    OpenedExisting =>
        LET grows == lastOp.val = 0 /\ lastOp.arg > 0
            call == IF lastOp.op = "open_cow" THEN "map_copy" ELSE "map_mut"
        IN /\ Logged("set_len") => grows
           /\ Logged("sync_dir") => grows
           /\ lastOp.res = "ok" =>
                 /\ obj = "live"
                 /\ Mapped
                 /\ Len(mmap.mem) = Len(disk)
                 /\ grows =>
                       /\ opts = "Some"
                       /\ Len(disk) = lastOp.arg
                       /\ log = <<"open_file", "metadata", "set_len", "sync_dir", call>>
                 /\ ~grows => Len(disk) = lastOp.val

\* open_cow with a max_size > 0 returned Ok over an empty file.
OpenedEmptyAndGrown ==
    /\ OpenedExisting /\ lastOp.op = "open_cow" /\ lastOp.res = "ok"
    /\ lastOp.val = 0 /\ lastOp.arg > 0 /\ Len(mmap.mem) = lastOp.arg

\* C15: open(path) without options acquires the handle with read-write access
\* and returns a Normal-mode file mapped read-write over it; the default open
\* never requests a writable mapping over a handle opened without write access.
DefaultOpenIsReadWrite ==
    pc = "idle" /\ lastOp.op = "open" /\ Logged("map_mut") =>
        /\ log[1] # "open_ro"
        /\ lastOp.res = "ok" => obj = "live" /\ typ = "Normal" /\ mmap.shared

\* The two operations that turn a mutable file into an immutable one.
FreezeOps == {"freeze", "freeze_exec"}

\* C16: freeze and freeze_exec consume the mutable file and yield an immutable
\* file (exec false for freeze, true for freeze_exec) over the same path, file
\* and bytes; an immutable file stays immutable until it is dropped, its region
\* is never changed through it, and no write, truncate, remove or
\* close_with_truncate takes place on the consumed mutable object.
FreezeIsOneWay ==
    [][/\ obj = "live" /\ obj' = "frozen" =>
             /\ lastOp'.op \in FreezeOps
             /\ lastOp'.res = "ok"
             /\ exec' = (lastOp'.op = "freeze_exec")
             /\ mmap' = mmap
             /\ disk' = disk
             /\ exists' = exists
       /\ lastOp'.op \in FreezeOps => obj' # "live"
       /\ obj = "frozen" =>
             /\ obj' \in {"frozen", "gone"}
             /\ pc' = "idle"
             /\ lastOp'.op \notin {"write", "truncate", "remove", "close"}
             /\ obj' = "frozen" => mmap' = mmap /\ exec' = exec /\ lastOp' = lastOp]_vars

\* freeze_exec returned an immutable, executable file over a non-empty region.
FrozenExec ==
    /\ obj = "frozen" /\ exec /\ Mapped
    /\ lastOp = Op("freeze_exec", 0, 0, "ok")
    /\ Len(mmap.mem) > 0

\* C17: create and open fail with OpenFailed when the file cannot be created
\* or opened, with TruncationFailed when the set_len of the preallocation
\* fails, and with MmapFailed when the mapping call fails; no object is
\* returned by a failed constructor.
ConstructorErrorKinds ==
    pc = "idle" /\ lastOp.op \in {"create", "open"} /\ failedCall # "" =>
        /\ failedCall \in {"create_file", "open_ro", "open_opts"} =>
              lastOp.res = "OpenFailed"
        /\ failedCall = "set_len" => lastOp.res = "TruncationFailed"
        /\ failedCall = "map_mut" => lastOp.res = "MmapFailed"
        /\ lastOp.res # "ok"
        /\ obj # "live"

\* create with a max_size > 0 failed at its set_len.
CreateTruncationFailed ==
    /\ pc = "idle" /\ lastOp.op = "create" /\ lastOp.arg > 0
    /\ failedCall = "set_len" /\ lastOp.res = "TruncationFailed"

\* C18: within one operation no call is issued twice, and the first call that
\* fails ends the operation with an error: it is the last call issued, the
\* operation does not return Ok, remove leaves the path in place when its
\* set_len failed and close_with_truncate leaves the length of the file alone
\* when its flush failed.
FirstFailureEndsOperation ==
    /\ \A i, j \in 1..Len(log) : i # j => log[i] # log[j]
    /\ failedCall # "" =>
          /\ pc = "idle"
          /\ lastOp.res \notin {"ok", "short"}
          /\ log[Len(log)] = failedCall
          /\ lastOp.op = "remove" /\ failedCall = "set_len" => exists
          /\ lastOp.op = "close" /\ failedCall = "flush" => Len(disk) = lastOp.val

\* remove stopped at a failed set_len(0) of a file that held bytes.
RemoveStoppedAtSetLen ==
    /\ lastOp.op = "remove" /\ failedCall = "set_len" /\ lastOp.val > 0
    /\ log = <<"unmap", "set_len">> /\ exists /\ Len(disk) > 0

\* An operation on the file-backed object returned Ok, and nothing runs now.
DiskOpOk == pc = "idle" /\ lastOp.res = "ok" /\ backing = "disk"

\* The index of the last of the calls cs in the log, 0 if there is none.
LastOf(cs) ==
    IF \E i \in 1..Len(log) : log[i] \in cs
    THEN CHOOSE i \in 1..Len(log) :
             log[i] \in cs /\ \A j \in (i + 1)..Len(log) : log[j] \notin cs
    ELSE 0

\* C19 as stated: every operation that creates the file or changes its length
\* (create, open_exist / open_cow growth, truncate, close_with_truncate with a
\* target >= 0) calls sync_dir after the change and before it returns Ok.
SyncDirAfterEveryChange ==
    /\ DiskOpOk
    /\ lastOp.op \in {"create", "open_exist", "open_cow", "truncate", "close"}
    /\ LastOf({"create_file", "set_len"}) > 0
    => LastOf({"sync_dir"}) > LastOf({"create_file", "set_len"})

\* C19: create with max_size > 0, the growth of an empty file by open_exist /
\* open_cow and close_with_truncate with a target >= 0 call sync_dir directly
\* after their set_len and before they return Ok; truncate and a create that
\* does not preallocate call no sync_dir.
SyncDirAfterPreallocation ==
    DiskOpOk =>
        /\ lastOp.op \in {"create", "open_exist", "open_cow", "close"} =>
              /\ \A i \in 1..Len(log) :
                     log[i] = "set_len" => i < Len(log) /\ log[i + 1] = "sync_dir"
              /\ Logged("sync_dir") => Logged("set_len")
              /\ lastOp.op = "close" /\ lastOp.arg >= 0 => Logged("set_len")
        /\ lastOp.op = "truncate" => ~Logged("sync_dir")

\* close_with_truncate with a target >= 0 returned Ok, the directory synced.
ClosedAndSynced ==
    /\ DiskOpOk /\ lastOp.op = "close" /\ lastOp.arg >= 0
    /\ log = <<"flush", "unmap", "set_len", "sync_dir">>

\* The object holds a mapped region that is private to it: a copy-on-write
\* mapping or the buffer of the memory-backed file.
PrivateRegion ==
    pc = "idle" /\ obj = "live" /\ Mapped /\ (typ = "Cow" \/ backing = "memory")

\* C20: flush on an anonymous or copy-on-write mapping never fails and never
\* changes the content of the file, be it called by itself or as the first
\* step of truncate or of close_with_truncate: the flush is not the call that
\* fails and the file changes only by a set_len that follows.
PrivateFlushIsNoOp ==
    [][PrivateRegion /\ Len(log') > 0 /\ log'[1] = "flush" =>
          /\ failedCall' # "flush"
          /\ disk' = IF (\E i \in 1..Len(log') : log'[i] = "set_len")
                        /\ failedCall' # "set_len"
                     THEN SetLen(disk, lastOp'.arg)
                     ELSE disk]_vars

\* truncate has flushed a copy-on-write region whose bytes differ from the file.
CowFlushedInTruncate ==
    /\ typ = "Cow" /\ pc # "idle" /\ log = <<"flush">>
    /\ pre.ok /\ Len(pre.mem) = Len(disk) /\ pre.mem # disk

\* C21: the two truncate strategies behave alike: whichever strategy is built
\* in, a truncate flushes exactly when the mapped length it starts from is
\* nonzero, so the calls it issues and the result it returns are the same
\* function of the region, the file and the outcomes of the calls.
StrategiesFlushAlike ==
    TruncateLog => (Logged("flush") <=> Len(pre.mem) > 0)

\* C28: the mode tag and the stored options are fixed at construction:
\* is_cow() holds exactly of a file built by open_cow, no operation on a live
\* file changes the tag, the options or the kind of backing, and every region
\* truncate maps is a private one for Copy-on-Write and a shared one for Normal.
ModeFixedAtConstruction ==
    [][/\ obj # "live" /\ obj' = "live" /\ backing' = "disk" =>
             (is_cow' <=> lastOp'.op = "open_cow")
       /\ obj = "live" /\ obj' = "live" =>
             typ' = typ /\ opts' = opts /\ backing' = backing
       /\ Len(newmap') = 1 /\ newmap' # newmap =>
             (newmap'[1].shared <=> ~is_cow)]_vars

\* A copy-on-write file was truncated and holds a private region.
CowRemapped ==
    TruncateOk /\ is_cow /\ Mapped /\ ~mmap.shared /\ Len(mmap.mem) > 0

\* The bytes a region of n bytes holds when it keeps the bytes of m up to
\* the shorter length and is zero beyond them.
KeptAndZeroFilled(m, n) == [i \in 1..n |-> IF i <= Len(m) THEN m[i] ELSE 0]

\* C29: a truncate of a Normal-mode file that returned Ok keeps the first
\* min(old_len, new_size) bytes as they were readable when it was called,
\* flushed or not, and makes every byte from old_len to new_size zero.
TruncateKeepsPrefix ==
    TruncateOk /\ typ = "Normal" /\ pre.ok =>
        mmap.mem = KeptAndZeroFilled(pre.mem, lastOp.arg)

\* C30: a truncate that fails before any unmap or resize took effect (at its
\* flush on either strategy, at set_len on the remap-in-place strategy)
\* returns the error and leaves the installed region, its length and bytes
\* and the length of the file as they were; the object can be used again.
EarlyFailureChangesNothing ==
    /\ pc = "idle" /\ backing = "disk" /\ lastOp.op = "truncate" /\ ~crashed
    /\ \/ failedCall = "flush"
       \/ failedCall = "set_len" /\ strategy = "remap_in_place"
    => /\ lastOp.res = "err"
       /\ obj = "live"
       /\ Mapped = pre.ok
       /\ mmap.mem = pre.mem
       /\ Len(disk) = pre.dlen

\* On the remap-in-place strategy a truncate of a non-empty region failed at
\* set_len.
SetLenFailedInPlace ==
    /\ pc = "idle" /\ backing = "disk" /\ lastOp.op = "truncate"
    /\ failedCall = "set_len" /\ strategy = "remap_in_place"
    /\ pre.ok /\ Len(pre.mem) > 0 /\ lastOp.arg # Len(pre.mem)

\* C22: a file-backed file made by create(path) and a fresh memory-backed file
\* put through the same truncate and write calls agree after every call: each
\* call returns the same result to both, and the length and the readable bytes
\* of the two are the same.
TwinAgrees ==
    [][/\ pc' = "idle" /\ Len(twin') = 1 =>
             /\ obj' = "live"
             /\ backing' = "disk"
             /\ Mapped'
             /\ mmap'.mem = twin'[1]
       /\ Len(twin) = 1 /\ Len(twin') = 1 /\ pc = "idle" /\ pc' = "idle"
          /\ lastOp'.op = "write" =>
             lastOp'.res = IF WriteCount(twin[1], lastOp'.arg) = 1
                           THEN "ok" ELSE "short"
       /\ Len(twin') = 1 /\ pc' = "idle" /\ lastOp'.op = "truncate" =>
             lastOp'.res = "ok" /\ Len(twin'[1]) = lastOp'.arg]_vars

\* Both files were grown, written at their first byte and truncated again.
TwinWrittenAndTruncated ==
    /\ Len(twin) = 1 /\ TruncateOk
    /\ Len(twin[1]) > 0 /\ twin[1][1] = 1 /\ Len(pre.mem) > Len(twin[1])

\* C23: write(bytes, offset) never fails: it copies min(bytes.len(),
\* mapped_len - offset) bytes to offset (none from the end of the region on),
\* returns that count and leaves every other byte and the mapped length as
\* they were; read(buf, offset) returns the same count and fills buf with the
\* bytes from offset on, changing nothing.
WriteReadClamped ==
    io.op \in {"write", "read"} =>
        LET m == io.before
            n == io.ret
            room == IF io.off >= Len(m) THEN 0 ELSE Len(m) - io.off
        IN /\ n \in 0..io.len
           /\ n <= room
           /\ n = io.len \/ n = room
           /\ Len(mmap.mem) = Len(m)
           /\ io.op = "write" =>
                 \A i \in 1..Len(m) :
                     mmap.mem[i] = IF io.off < i /\ i <= io.off + n
                                   THEN io.arg[i - io.off] ELSE m[i]
           /\ io.op = "read" =>
                 /\ mmap.mem = m
                 /\ Len(io.out) = n
                 /\ \A k \in 1..n : io.out[k] = m[io.off + k]

\* A write of more bytes than the region holds from the offset on was cut short.
WriteCutShort ==
    /\ io.op = "write" /\ io.off > 0 /\ io.ret > 0 /\ io.ret < io.len
    /\ mmap.mem # io.before

TypedRoundTrip ==
    [][/\ (/\ io.op = "write_T" /\ io.ret = "ok"
           /\ io'.op = "read_T" /\ io'.off = io.off /\ io'.ty = io.ty)
          => io'.ret = "ok" /\ io'.out = <<io.arg>>
       /\ (io'.op = "write_T" /\ io'.ret = "ok")
          => /\ Len(mmap'.mem) = Len(mmap.mem)
             /\ \A i \in 1..Len(mmap.mem) :
                    (i <= io'.off \/ i > io'.off + io'.len)
                    => mmap'.mem[i] = mmap.mem[i]]_vars

\* A little-endian signed read of a whole two-byte region returned a value
\* whose bytes differ from one another.
LittleEndianReadBack ==
    /\ io.op = "read_T" /\ io.ret = "ok"
    /\ io.ty = <<2, "le", TRUE>> /\ io.off = 0
    /\ io.out = <<0 - 2>>
    /\ mmap.mem = <<0, 1>>


\* C26: a read or write through a range cursor, wherever seek has put the
\* position, keeps the mapped length and every byte outside the window
\* [offset, offset + len); it moves min(n, len - pos) bytes (none from the end
\* of the window on), a write storing them at offset + pos and a read
\* returning the bytes the region holds at offset + pos, so that a reader over
\* the same window reads back what a writer stored.
CursorConfined ==
    [][io'.op \in {"cursor_write", "cursor_read"} =>
        LET lo == cursor.off
            pos == cursor.pos
            n == io'.ret
            room == IF pos >= cursor.len THEN 0 ELSE cursor.len - pos
        IN /\ lo + cursor.len <= Len(mmap.mem)
           /\ n = (IF io'.len < room THEN io'.len ELSE room)
           /\ cursor'.pos = pos + n
           /\ Len(mmap'.mem) = Len(mmap.mem)
           /\ \A i \in 1..Len(mmap.mem) :
                  (i <= lo \/ i > lo + cursor.len) => mmap'.mem[i] = mmap.mem[i]
           /\ io'.op = "cursor_write" =>
                  \A i \in 1..Len(mmap.mem) :
                      mmap'.mem[i] = IF lo + pos < i /\ i <= lo + pos + n
                                     THEN io'.arg[i - lo - pos] ELSE mmap.mem[i]
           /\ io'.op = "cursor_read" =>
                  /\ mmap'.mem = mmap.mem
                  /\ Len(io'.out) = n
                  /\ \A k \in 1..n : io'.out[k] = mmap.mem[lo + pos + k]]_vars

\* A writer over a window that starts inside the region wrote fewer bytes
\* than it was given, having reached the end of its window.
CursorWriteCutShort ==
    /\ io.op = "cursor_write" /\ cursor.kind = "writer" /\ cursor.off > 0
    /\ io.ret > 0 /\ io.ret < io.len
    /\ cursor.pos = cursor.len
    /\ mmap.mem # io.before


\* C27: write_range_to_new_file(path, offset, len) leaves at path a file of
\* exactly len bytes that equal the mapped bytes [offset, offset + len), and
\* write_all_to_new_file(path) one that equals the whole region; the region,
\* the file behind it and the handle are as they were before the call.
ExportIsTheRange ==
    [][io'.op \in {"write_range_to_new_file", "write_all_to_new_file"} =>
        /\ Len(exported') = 1
        /\ Len(exported'[1]) = io'.len
        /\ \A k \in 1..io'.len : exported'[1][k] = mmap.mem[io'.off + k]
        /\ io'.op = "write_all_to_new_file" => exported'[1] = mmap.mem
        /\ mmap' = mmap
        /\ disk' = disk /\ exists' = exists
        /\ backing' = backing /\ obj' = obj /\ typ' = typ]_vars

\* A range that does not start at the start of the region was exported, and
\* the bytes at the start of the region are other bytes.
ExportedInnerRange ==
    /\ io.op = "write_range_to_new_file" /\ io.off > 0 /\ io.len > 0
    /\ Len(exported) = 1
    /\ exported[1] # SubSeq(mmap.mem, 1, io.len)


\* C31: a truncate of a Copy-on-Write file that returned Ok has set the length
\* of the backing file to new_size, keeping the bytes the file held up to the
\* shorter length and none of the private writes, and has mapped the region
\* anew as a private copy of that file: the region reads the bytes of the
\* file, not the bytes written privately before the call.
CowTruncateReachesFile ==
    TruncateOk /\ is_cow /\ pre.ok =>
        /\ Len(disk) = lastOp.arg
        /\ disk = SetLen(pre.dsk, lastOp.arg)
        /\ Mapped /\ ~mmap.shared
        /\ mmap.mem = disk

\* A Copy-on-Write file whose region differed from the file in its first byte
\* was truncated to a shorter, nonzero length: the file lost its last bytes
\* and the region reads the first byte of the file, not the one written.
CowShrunkAndWriteLost ==
    /\ TruncateOk /\ is_cow /\ pre.ok /\ Mapped
    /\ lastOp.arg > 0 /\ lastOp.arg < Len(pre.dsk)
    /\ Len(pre.mem) = Len(pre.dsk) /\ pre.mem[1] # pre.dsk[1]
    /\ Len(disk) < Len(pre.dsk)
    /\ mmap.mem[1] = pre.dsk[1]

============================================================================
